---------------------------- MODULE Spec2Model ----------------------------
(***************************************************************************)
(* A model of go-joe/file-memory: a map[string]string mirrored to one JSON *)
(* file.  Two revisions of the store are in the sources: type Memory       *)
(* (memory.go), whose Delete always persists, and type memory (the later,  *)
(* documented revision), whose Delete returns early for an absent key.     *)
(* Every other method is the same text in both.  The variable impl says    *)
(* which revision the process was built from.                              *)
(*                                                                         *)
(* Spec     one caller: every exported method is one atomic action.        *)
(* SpecConc several callers and no lock (mu is declared and never locked): *)
(*          every statement of a method is a step of its goroutine.        *)
(***************************************************************************)
EXTENDS Integers, Sequences, FiniteSets, TLC

\* ------------------------------------------------------------- bounds
NumKeys == 2
NumVals == 2
NumCallers == 2
MaxCalls == 1

KeyNames == <<"foo1", "foo2", "foo3", "foo4">>
ValNames == <<"bar", "baz", "qux", "zap">>

AllKeys == {KeyNames[i] : i \in 1..NumKeys}
AllVals == {ValNames[i] : i \in 1..NumVals}

\* The position of a key in lexicographic order (KeyNames is sorted).
Rank(k) == CHOOSE i \in 1..Len(KeyNames) : KeyNames[i] = k

\* ------------------------------------------------------- map[string]string
EmptyMap == [x \in {} |-> "bar"]

Maps == UNION {[S -> AllVals] : S \in SUBSET AllKeys}

\* m.data: a Go map value is nil or a reference to a table.
NilData == [nil |-> TRUE, kv |-> EmptyMap]

MkData(m) == [nil |-> FALSE, kv |-> m]

\* A map assignment that does not overwrite a key already there.
MapAssign_KeepOld(m, k, v) ==
    IF k \in DOMAIN m THEN m ELSE [x \in (DOMAIN m) \cup {k} |-> IF x = k THEN v ELSE m[x]]

\* m.data[key] = value
MapAssign(m, k, v) == [x \in (DOMAIN m) \cup {k} |-> IF x = k THEN v ELSE m[x]]

\* A delete that empties the map.
MapDelete_Clear(m, k) == [x \in {} |-> "bar"]

\* delete(m.data, key)
MapDelete(m, k) == [x \in (DOMAIN m) \ {k} |-> m[x]]

\* ------------------------------------------------------------- errors
NoErr == "nil"
ErrShutDown == "brain was already shut down"
ErrClosed == "brain was already closed"
ErrOpenRead == "failed to open file"
ErrDecode == "failed decode data as JSON"
ErrOpenWrite == "failed to open file to persist data"
ErrEncode == "failed to encode data as JSON"
ErrClose == "failed to close file; data might not have been fully persisted to disk"

\* ------------------------------------------------ the JSON text of the file
\* A file's content is a sequence of tokens: the punctuation of JSON, the
\* literal null, and quoted strings (the keys and the values).
Punct == {"{", "}", ":", ",", "\n", "null"}

IsString(t) == t \notin Punct

RECURSIVE SortedKeys(_)
SortedKeys(S) ==
    IF S = {} THEN <<>>
    ELSE LET k == CHOOSE x \in S : \A y \in S : Rank(x) <= Rank(y)
         IN  <<k>> \o SortedKeys(S \ {k})

RECURSIVE EncodePairs(_, _)
EncodePairs(m, ks) ==
    IF ks = <<>> THEN <<>>
    ELSE <<Head(ks), ":", m[Head(ks)]>>
         \o (IF Len(ks) > 1 THEN <<",">> ELSE <<>>)
         \o EncodePairs(m, Tail(ks))

\* json.NewEncoder(f).Encode(m.data): a nil map is null, a map is an object
\* with its keys sorted; Encode ends the value with a newline.
Encode(d) ==
    IF d.nil THEN <<"null", "\n">>
    ELSE <<"{">> \o EncodePairs(d.kv, SortedKeys(DOMAIN d.kv)) \o <<"}", "\n">>

\* A decoder that stops after the first member of an object.
DecodeMembers_First(b, i, m) ==
    IF i + 3 > Len(b) THEN [ok |-> FALSE, kv |-> [x \in {} |-> "bar"]]
    ELSE IF ~(IsString(b[i]) /\ b[i + 1] = ":" /\ IsString(b[i + 2]))
         THEN [ok |-> FALSE, kv |-> [x \in {} |-> "bar"]]
    ELSE IF b[i + 3] \in {"}", ","} THEN [ok |-> TRUE, kv |-> MapAssign(m, b[i], b[i + 2])]
    ELSE [ok |-> FALSE, kv |-> [x \in {} |-> "bar"]]

\* The members of an object from token i on, folded into the map m; i is at a
\* key.  A repeated key keeps its last value.
RECURSIVE DecodeMembers(_, _, _)
DecodeMembers(b, i, m) ==
    IF i + 3 > Len(b) THEN [ok |-> FALSE, kv |-> EmptyMap]
    ELSE IF ~(IsString(b[i]) /\ b[i + 1] = ":" /\ IsString(b[i + 2]))
         THEN [ok |-> FALSE, kv |-> EmptyMap]
    ELSE IF b[i + 3] = "}" THEN [ok |-> TRUE, kv |-> MapAssign(m, b[i], b[i + 2])]
    ELSE IF b[i + 3] = "," THEN DecodeMembers(b, i + 4, MapAssign(m, b[i], b[i + 2]))
    ELSE [ok |-> FALSE, kv |-> EmptyMap]

\* json.NewDecoder(f).Decode(&memory.data) with memory.data an empty map: the
\* first JSON value of the stream is read and what follows it is not looked
\* at; null sets the map to nil; anything but an object of strings is an error.
Decode(b) ==
    IF b = <<>> THEN [err |-> ErrDecode, data |-> MkData(EmptyMap)]
    ELSE IF b[1] = "null" THEN [err |-> NoErr, data |-> NilData]
    ELSE IF b[1] # "{" THEN [err |-> ErrDecode, data |-> MkData(EmptyMap)]
    ELSE IF Len(b) >= 2 /\ b[2] = "}" THEN [err |-> NoErr, data |-> MkData(EmptyMap)]
    ELSE LET r == DecodeMembers(b, 2, EmptyMap)
         IN  IF r.ok THEN [err |-> NoErr, data |-> MkData(r.kv)]
             ELSE [err |-> ErrDecode, data |-> MkData(EmptyMap)]

\* ------------------------------------------------------------- the file
NoFile == [exists |-> FALSE, bytes |-> <<>>]

MkFile(b) == [exists |-> TRUE, bytes |-> b]

ProperPrefixes(b) == {SubSeq(b, 1, n) : n \in 0..(Len(b) - 1)}


\* ------------------------------------------------------------- the state
VARIABLES
    impl,     \* "Memory" (memory.go) or "memory" (the documented revision)
    store,    \* "none": no instance was returned yet; "live": NewMemory returned one
    data,     \* m.data
    file,     \* the file at m.path
    last,     \* the last call of the single caller and what it returned
    prev,     \* m.data and the file as that call found them, and whether Close had returned
    expect,   \* per key, what the calls since the last one that touched it promise
    run,      \* history of the instance: what it loaded, and whether it only saw successful Sets
    pc,       \* per caller (goroutine), the statement it is at
    loc,      \* per caller, the arguments and locals of its call
    ret,      \* per caller, what its last call returned
    calls,    \* per caller, the calls it has made
    writing,  \* the caller inside a write of the map (the runtime's hashWriting flag)
    crashed   \* the fatal error or panic that ended the process, or ""

svars == <<last, prev, expect, run>>

cvars == <<pc, loc, ret, calls, writing, crashed>>

vars == <<impl, store, data, file, last, prev, expect, run, pc, loc, ret, calls, writing, crashed>>

Callers == 1..NumCallers

NoLoc == [op |-> "none", key |-> "", value |-> "", ok |-> FALSE, buf |-> <<>>]

IdleCallers ==
    /\ pc = [t \in Callers |-> "idle"]
    /\ loc = [t \in Callers |-> NoLoc]
    /\ calls = [t \in Callers |-> 0]
    /\ writing = 0
    /\ crashed = ""

Impls == {"Memory", "memory"}

NoCall ==
    [op |-> "none", key |-> "", value |-> "", err |-> NoErr, found |-> FALSE,
     val |-> "", keys |-> <<>>, mem |-> EmptyMap, shared |-> FALSE, opens |-> 0]

Nothing == [kind |-> "none", value |-> "", over |-> FALSE]

NoExpect == [k \in AllKeys |-> Nothing]

FreshRun == [pure |-> TRUE, closed |-> FALSE, loaded |-> EmptyMap, sets |-> EmptyMap]

NoRun == [pure |-> FALSE, closed |-> FALSE, loaded |-> EmptyMap, sets |-> EmptyMap]

\* What may lie at the path before the first construction.
InitialFiles ==
    {NoFile, MkFile(<<>>), MkFile(<<"null", "\n">>)}
        \cup {MkFile(Encode(MkData(m))) : m \in Maps}

Init ==
    /\ impl \in Impls
    /\ store = "none"
    /\ data = NilData
    /\ file \in InitialFiles
    /\ last = NoCall
    /\ prev = [data |-> NilData, file |-> NoFile, closed |-> FALSE]
    /\ expect = NoExpect
    /\ run = NoRun
    /\ IdleCallers
    /\ ret = [t \in Callers |-> NoCall]

\* ------------------------------------------------------------- persist
\* A persist that opens the file with O_APPEND in place of O_TRUNC.
persist_Append(d, f) ==
    {[err |-> ErrOpenWrite, file |-> f]}
        \cup {[err |-> ErrEncode, file |-> MkFile(f.bytes \o p)] : p \in ProperPrefixes(Encode(d))}
        \cup {[err |-> ErrClose, file |-> MkFile(f.bytes \o Encode(d))],
              [err |-> NoErr, file |-> MkFile(f.bytes \o Encode(d))]}

\* A persist that adds the pairs of d to the pairs the file holds.
persist_Merge(d, f) ==
    LET old == IF f.exists /\ Decode(f.bytes).err = NoErr /\ ~Decode(f.bytes).data.nil
               THEN Decode(f.bytes).data.kv ELSE EmptyMap
        all == MkData([k \in (DOMAIN old) \cup (DOMAIN d.kv) |->
                           IF k \in DOMAIN d.kv THEN d.kv[k] ELSE old[k]])
    IN  {[err |-> ErrOpenWrite, file |-> f]}
            \cup {[err |-> ErrEncode, file |-> MkFile(p)] : p \in ProperPrefixes(Encode(all))}
            \cup {[err |-> ErrClose, file |-> MkFile(Encode(all))],
                  [err |-> NoErr, file |-> MkFile(Encode(all))]}

\* m.persist() as one step: the results OpenFile, Encode and Close can have.
\* A failed OpenFile leaves the file as it was.  O_TRUNC empties the file, so
\* a failed write leaves a proper prefix of the text.  When Close fails the
\* write has returned: the text is what a later open reads, and what the
\* error puts in doubt is whether it reached the disk.
persist(d, f) ==
    {[err |-> ErrOpenWrite, file |-> f]}
        \cup {[err |-> ErrEncode, file |-> MkFile(p)] : p \in ProperPrefixes(Encode(d))}
        \cup {[err |-> ErrClose, file |-> MkFile(Encode(d))],
              [err |-> NoErr, file |-> MkFile(Encode(d))]}

\* ------------------------------------------------ bookkeeping of a call
\* The first call on a new instance starts the instance's history.
RunNow == IF last.op = "NewMemory" THEN [FreshRun EXCEPT !.loaded = data.kv] ELSE run

ExpectNow == IF last.op = "NewMemory" THEN NoExpect ELSE expect

Impure == [NoRun EXCEPT !.closed = RunNow.closed]

Called(c) ==
    /\ UNCHANGED cvars
    /\ last' = c
    /\ prev' = [data |-> data, file |-> file, closed |-> RunNow.closed]

ReadOnly ==
    /\ UNCHANGED <<impl, store, data, file>>
    /\ expect' = ExpectNow
    /\ run' = RunNow

\* --------------------------------------------------------- NewMemory
\* A NewMemory that opens the path with O_CREATE: a missing file is created.
NewMemory_CreatesFile ==
    /\ \E opened \in BOOLEAN :
         LET r == IF ~opened THEN [err |-> ErrOpenRead, data |-> NilData]
                  ELSE IF ~file.exists THEN [err |-> NoErr, data |-> MkData(EmptyMap)]
                  ELSE Decode(file.bytes)
         IN  /\ store' = IF r.err = NoErr THEN "live" ELSE "none"
             /\ data' = IF r.err = NoErr THEN r.data ELSE NilData
             /\ file' = IF opened /\ ~file.exists THEN MkFile(<<>>) ELSE file
             /\ Called([NoCall EXCEPT !.op = "NewMemory", !.err = r.err])
    /\ run' = IF last.op = "NewMemory" THEN NoRun ELSE run
    /\ UNCHANGED <<impl, expect>>

\* os.Open may fail for a reason other than the file not existing.
NewMemory ==
    /\ \E opened \in BOOLEAN :
         LET r == IF ~opened THEN [err |-> ErrOpenRead, data |-> NilData]
                  ELSE IF ~file.exists THEN [err |-> NoErr, data |-> MkData(EmptyMap)]
                  ELSE Decode(file.bytes)
         IN  /\ store' = IF r.err = NoErr THEN "live" ELSE "none"
             /\ data' = IF r.err = NoErr THEN r.data ELSE NilData
             /\ Called([NoCall EXCEPT !.op = "NewMemory", !.err = r.err])
    /\ run' = IF last.op = "NewMemory" THEN NoRun ELSE run
    /\ UNCHANGED <<impl, file, expect>>

\* ------------------------------------------------------------- Set
\* A Set that takes the assignment back when persist fails.
Set_Rollback(key, value) ==
    /\ store = "live"
    /\ UNCHANGED <<impl, store>>
    /\ IF data.nil
       THEN /\ Called([NoCall EXCEPT !.op = "Set", !.key = key, !.value = value,
                                     !.err = ErrShutDown])
            /\ UNCHANGED <<data, file>>
            /\ expect' = ExpectNow
            /\ run' = Impure
       ELSE \E r \in persist(MkData(MapAssign(data.kv, key, value)), file) :
                 /\ data' = IF r.err = NoErr THEN MkData(MapAssign(data.kv, key, value)) ELSE data
                 /\ file' = r.file
                 /\ Called([NoCall EXCEPT !.op = "Set", !.key = key, !.value = value,
                                          !.err = r.err, !.opens = 1])
                 /\ expect' = [ExpectNow EXCEPT
                                 ![key] = [kind |-> IF r.err = NoErr THEN "set" ELSE "setfailed",
                                           value |-> value,
                                           over |-> key \in DOMAIN data.kv /\ data.kv[key] # value]]
                 /\ run' = IF r.err = NoErr /\ RunNow.pure
                           THEN [RunNow EXCEPT !.sets = MapAssign(@, key, value)]
                           ELSE Impure

Set(key, value) ==
    /\ store = "live"
    /\ UNCHANGED <<impl, store>>
    /\ IF data.nil
       THEN /\ Called([NoCall EXCEPT !.op = "Set", !.key = key, !.value = value,
                                     !.err = ErrShutDown])
            /\ UNCHANGED <<data, file>>
            /\ expect' = ExpectNow
            /\ run' = Impure
       ELSE /\ data' = MkData(MapAssign(data.kv, key, value))
            /\ \E r \in persist(data', file) :
                 /\ file' = r.file
                 /\ Called([NoCall EXCEPT !.op = "Set", !.key = key, !.value = value,
                                          !.err = r.err, !.opens = 1])
                 /\ expect' = [ExpectNow EXCEPT
                                 ![key] = [kind |-> IF r.err = NoErr THEN "set" ELSE "setfailed",
                                           value |-> value,
                                           over |-> key \in DOMAIN data.kv /\ data.kv[key] # value]]
                 /\ run' = IF r.err = NoErr /\ RunNow.pure
                           THEN [RunNow EXCEPT !.sets = MapAssign(@, key, value)]
                           ELSE Impure

\* ------------------------------------------------------------- Get
\* A Get that writes the file as it goes.
Get_Persists(key) ==
    /\ store = "live"
    /\ UNCHANGED <<impl, store, data>>
    /\ expect' = ExpectNow
    /\ run' = RunNow
    /\ IF data.nil
       THEN /\ Called([NoCall EXCEPT !.op = "Get", !.key = key, !.err = ErrShutDown])
            /\ UNCHANGED file
       ELSE /\ Called([NoCall EXCEPT !.op = "Get", !.key = key,
                                     !.found = (key \in DOMAIN data.kv),
                                     !.val = IF key \in DOMAIN data.kv THEN data.kv[key] ELSE ""])
            /\ file' = MkFile(Encode(data))

Get(key) ==
    /\ store = "live"
    /\ ReadOnly
    /\ IF data.nil
       THEN Called([NoCall EXCEPT !.op = "Get", !.key = key, !.err = ErrShutDown])
       ELSE Called([NoCall EXCEPT !.op = "Get", !.key = key,
                                  !.found = (key \in DOMAIN data.kv),
                                  !.val = IF key \in DOMAIN data.kv THEN data.kv[key] ELSE ""])

\* ------------------------------------------------------------- Delete
\* memory.go: the key is looked up and deleted, and persist runs whether or
\* not the key was there.
Memory_Delete(key) ==
    /\ store = "live"
    /\ impl = "Memory"
    /\ UNCHANGED <<impl, store>>
    /\ IF data.nil
       THEN /\ Called([NoCall EXCEPT !.op = "Delete", !.key = key, !.err = ErrShutDown])
            /\ UNCHANGED <<data, file>>
            /\ expect' = ExpectNow
            /\ run' = Impure
       ELSE LET ok == key \in DOMAIN data.kv
            IN  /\ data' = MkData(MapDelete(data.kv, key))
                /\ \E r \in persist(data', file) :
                     /\ file' = r.file
                     /\ Called([NoCall EXCEPT !.op = "Delete", !.key = key, !.found = ok,
                                              !.err = r.err, !.opens = 1])
                     /\ expect' = [ExpectNow EXCEPT
                                     ![key] = IF ok /\ r.err = NoErr
                                              THEN [Nothing EXCEPT !.kind = "deleted"]
                                              ELSE Nothing]
                     /\ run' = Impure

\* The documented revision: an absent key returns (false, nil) before
\* anything is deleted or persisted.
memory_Delete(key) ==
    /\ store = "live"
    /\ impl = "memory"
    /\ UNCHANGED <<impl, store>>
    /\ IF data.nil
       THEN /\ Called([NoCall EXCEPT !.op = "Delete", !.key = key, !.err = ErrShutDown])
            /\ UNCHANGED <<data, file>>
            /\ expect' = ExpectNow
            /\ run' = Impure
       ELSE IF key \notin DOMAIN data.kv
       THEN /\ Called([NoCall EXCEPT !.op = "Delete", !.key = key])
            /\ UNCHANGED <<data, file>>
            /\ expect' = [ExpectNow EXCEPT ![key] = Nothing]
            /\ run' = Impure
       ELSE /\ data' = MkData(MapDelete(data.kv, key))
            /\ \E r \in persist(data', file) :
                 /\ file' = r.file
                 /\ Called([NoCall EXCEPT !.op = "Delete", !.key = key, !.found = TRUE,
                                          !.err = r.err, !.opens = 1])
                 /\ expect' = [ExpectNow EXCEPT
                                 ![key] = IF r.err = NoErr
                                          THEN [Nothing EXCEPT !.kind = "deleted"]
                                          ELSE Nothing]
                 /\ run' = Impure

\* ------------------------------------------------------------- Memories
\* A Memories that returns m.data itself in place of a copy.
Memories_NoCopy ==
    /\ store = "live"
    /\ ReadOnly
    /\ IF data.nil
       THEN Called([NoCall EXCEPT !.op = "Memories", !.err = ErrShutDown])
       ELSE Called([NoCall EXCEPT !.op = "Memories", !.mem = data.kv, !.shared = TRUE])

\* m := make(map[string]string, len(m.data)) and the loop that fills it: the
\* map returned is a new one (shared = FALSE).
Memories ==
    /\ store = "live"
    /\ ReadOnly
    /\ IF data.nil
       THEN Called([NoCall EXCEPT !.op = "Memories", !.err = ErrShutDown])
       ELSE Called([NoCall EXCEPT !.op = "Memories",
                                  !.mem = [k \in DOMAIN data.kv |-> data.kv[k]]])

\* The caller changes the map that Memories returned.  A Go map is a
\* reference: the change reaches m.data exactly when the map returned is
\* m.data itself.
CallerChanges(m) ==
    /\ store = "live"
    /\ last.op \in {"Memories", "CallerAssigns", "CallerDeletes"}
    /\ last.err = NoErr
    /\ data' = IF last.shared THEN MkData(m) ELSE data
    /\ UNCHANGED <<impl, store, file, expect, run>>

CallerAssigns(key, value) ==
    /\ CallerChanges(MapAssign(last.mem, key, value))
    /\ Called([last EXCEPT !.op = "CallerAssigns", !.mem = MapAssign(last.mem, key, value)])

CallerDeletes(key) ==
    /\ CallerChanges(MapDelete(last.mem, key))
    /\ Called([last EXCEPT !.op = "CallerDeletes", !.mem = MapDelete(last.mem, key)])

\* ------------------------------------------------------------- Keys
\* The orders in which a range over a map with the keys S may visit them.
Iterations(S) ==
    {q \in [1..Cardinality(S) -> S] : \A i, j \in 1..Cardinality(S) : i # j => q[i] # q[j]}

\* An insertion that puts the key in front, wherever it belongs.
InsertSorted_Front(k, s) == <<k>> \o s

RECURSIVE InsertSorted(_, _)
InsertSorted(k, s) ==
    IF s = <<>> THEN <<k>>
    ELSE IF Rank(k) <= Rank(Head(s)) THEN <<k>> \o s
    ELSE <<Head(s)>> \o InsertSorted(k, Tail(s))

\* sort.Strings(keys)
RECURSIVE SortStrings(_)
SortStrings(q) ==
    IF q = <<>> THEN <<>>
    ELSE InsertSorted(q[Len(q)], SortStrings(SubSeq(q, 1, Len(q) - 1)))

\* Keys() is called by the tests and named by the changelog ("deterministic
\* by sorting the output"); its text is not among the sources.  It collects the
\* keys in the order the map yields them and sorts them.
Keys ==
    /\ store = "live"
    /\ ReadOnly
    /\ IF data.nil
       THEN Called([NoCall EXCEPT !.op = "Keys", !.err = ErrShutDown])
       ELSE \E q \in Iterations(DOMAIN data.kv) :
                Called([NoCall EXCEPT !.op = "Keys", !.keys = SortStrings(q)])

\* ------------------------------------------------------------- Close
\* A Close that reports success and leaves m.data in place.
Close_KeepsData ==
    /\ store = "live"
    /\ UNCHANGED <<impl, store, file, data>>
    /\ expect' = ExpectNow
    /\ IF data.nil
       THEN /\ Called([NoCall EXCEPT !.op = "Close", !.err = ErrClosed])
            /\ run' = RunNow
       ELSE /\ Called([NoCall EXCEPT !.op = "Close"])
            /\ run' = [RunNow EXCEPT !.closed = TRUE]

\* A Close that succeeds on a closed store as well.
Close_Idempotent ==
    /\ store = "live"
    /\ UNCHANGED <<impl, store, file>>
    /\ expect' = ExpectNow
    /\ Called([NoCall EXCEPT !.op = "Close"])
    /\ data' = NilData
    /\ run' = [RunNow EXCEPT !.closed = TRUE]

\* A Close that writes the released mapping to the file.
Close_Flush ==
    /\ store = "live"
    /\ UNCHANGED <<impl, store>>
    /\ expect' = ExpectNow
    /\ IF data.nil
       THEN /\ Called([NoCall EXCEPT !.op = "Close", !.err = ErrClosed])
            /\ UNCHANGED <<data, file>>
            /\ run' = RunNow
       ELSE /\ Called([NoCall EXCEPT !.op = "Close"])
            /\ data' = NilData
            /\ file' = MkFile(Encode(NilData))
            /\ run' = [RunNow EXCEPT !.closed = TRUE]

Close ==
    /\ store = "live"
    /\ UNCHANGED <<impl, store, file>>
    /\ expect' = ExpectNow
    /\ IF data.nil
       THEN /\ Called([NoCall EXCEPT !.op = "Close", !.err = ErrClosed])
            /\ UNCHANGED data
            /\ run' = RunNow
       ELSE /\ Called([NoCall EXCEPT !.op = "Close"])
            /\ data' = NilData
            /\ run' = [RunNow EXCEPT !.closed = TRUE]

\* ------------------------------------------------------------- one caller
Next ==
    \/ NewMemory
    \/ \E k \in AllKeys, v \in AllVals : Set(k, v)
    \/ \E k \in AllKeys : Get(k)
    \/ \E k \in AllKeys : Memory_Delete(k)
    \/ \E k \in AllKeys : memory_Delete(k)
    \/ Memories
    \/ \E k \in AllKeys, v \in AllVals : CallerAssigns(k, v)
    \/ \E k \in AllKeys : CallerDeletes(k)
    \/ Keys
    \/ Close

Spec == Init /\ [][Next]_vars

\* ====================================================== several callers
\* No method locks mu, so the statements of concurrent calls interleave.  A
\* step is one statement; the interleaving is sequentially consistent.  The
\* Go runtime marks a map while it is written (hashWriting) and ends the
\* process with a fatal error when another access finds the mark; a write
\* through a nil map panics.  Each call of persist has its own descriptor,
\* opened at offset 0, and writes its text with one Write.

\* The store as NewMemory returned it, with the file it loaded.
InitConc ==
    /\ impl \in Impls
    /\ store = "live"
    /\ \E m \in Maps :
         /\ data = MkData(m)
         /\ file \in {MkFile(Encode(MkData(m)))} \cup (IF m = EmptyMap THEN {NoFile} ELSE {})
    /\ last = NoCall
    /\ prev = [data |-> NilData, file |-> NoFile, closed |-> FALSE]
    /\ expect = NoExpect
    /\ run = NoRun
    /\ IdleCallers
    /\ ret = [t \in Callers |-> NoCall]

\* Text written at offset 0 over what the file holds.
WriteAt0(text, old) == text \o SubSeq(old, Len(text) + 1, Len(old))

Goto(t, label) == pc' = [pc EXCEPT ![t] = label]

Return(t, r) ==
    /\ ret' = [ret EXCEPT ![t] = r]
    /\ pc' = [pc EXCEPT ![t] = "idle"]
    /\ loc' = [loc EXCEPT ![t] = NoLoc]
    /\ calls' = [calls EXCEPT ![t] = @ + 1]

Result(t) == [NoCall EXCEPT !.op = loc[t].op, !.key = loc[t].key, !.value = loc[t].value]

Fatal(reason) ==
    /\ crashed' = reason
    /\ UNCHANGED <<impl, store, data, file, svars, pc, loc, ret, calls, writing>>

At(t, label) == crashed = "" /\ pc[t] = label

\* A caller enters a method.
Call(t, op, key, value) ==
    /\ At(t, "idle")
    /\ calls[t] < MaxCalls
    /\ loc' = [loc EXCEPT ![t] = [NoLoc EXCEPT !.op = op, !.key = key, !.value = value]]
    /\ Goto(t, op)
    /\ UNCHANGED <<impl, store, data, file, svars, ret, calls, writing, crashed>>

\* if m.data == nil { return ... errors.New(...) }, the first statement of
\* every method.
CheckNil(t, op, next) ==
    /\ At(t, op)
    /\ IF data.nil
       THEN /\ Return(t, [Result(t) EXCEPT
                            !.err = IF op = "Close" THEN ErrClosed ELSE ErrShutDown])
            /\ UNCHANGED <<impl, store, data, file, svars, writing, crashed>>
       ELSE /\ Goto(t, next)
            /\ UNCHANGED <<impl, store, data, file, svars, loc, ret, calls, writing, crashed>>

\* The runtime enters a write of m.data: mapassign and mapdelete.
BeginMapWrite(t, label, next, isAssign) ==
    /\ At(t, label)
    /\ IF data.nil /\ isAssign
       THEN Fatal("panic: assignment to entry in nil map")
       ELSE IF ~data.nil /\ writing # 0
       THEN Fatal("fatal error: concurrent map writes")
       ELSE /\ writing' = IF data.nil THEN writing ELSE t
            /\ Goto(t, next)
            /\ UNCHANGED <<impl, store, data, file, svars, loc, ret, calls, crashed>>

\* The write lands in the table the runtime entered; after a Close in between
\* m.data no longer refers to that table.
EndMapWrite(t, label, next, m) ==
    /\ At(t, label)
    /\ data' = IF writing = t /\ ~data.nil THEN MkData(m) ELSE data
    /\ writing' = IF writing = t THEN 0 ELSE writing
    /\ Goto(t, next)
    /\ UNCHANGED <<impl, store, file, svars, loc, ret, calls, crashed>>

Set_check(t) == CheckNil(t, "Set", "Set_assign")

\* m.data[key] = value
Set_assign(t) == BeginMapWrite(t, "Set_assign", "Set_assigned", TRUE)

Set_assigned(t) ==
    EndMapWrite(t, "Set_assigned", "persist", MapAssign(data.kv, loc[t].key, loc[t].value))

\* An OpenFile without O_TRUNC: what the file holds stays until it is
\* written over.
persist_OpenFile_NoTrunc(t) ==
    /\ At(t, "persist")
    /\ \/ /\ Return(t, [Result(t) EXCEPT !.found = loc[t].ok, !.err = ErrOpenWrite, !.opens = 1])
          /\ UNCHANGED file
       \/ /\ file' = MkFile(file.bytes)
          /\ Goto(t, "persist_Encode")
          /\ UNCHANGED <<loc, ret, calls>>
    /\ UNCHANGED <<impl, store, data, svars, writing, crashed>>

\* f, err := os.OpenFile(m.path, O_WRONLY|O_CREATE|O_TRUNC, 0660)
persist_OpenFile(t) ==
    /\ At(t, "persist")
    /\ \/ /\ Return(t, [Result(t) EXCEPT !.found = loc[t].ok, !.err = ErrOpenWrite, !.opens = 1])
          /\ UNCHANGED file
       \/ /\ file' = MkFile(<<>>)
          /\ Goto(t, "persist_Encode")
          /\ UNCHANGED <<loc, ret, calls>>
    /\ UNCHANGED <<impl, store, data, svars, writing, crashed>>

\* json.NewEncoder(f).Encode(m.data), first half: the map is read into the
\* encoder's buffer.
persist_Encode(t) ==
    /\ At(t, "persist_Encode")
    /\ IF ~data.nil /\ writing # 0
       THEN Fatal("fatal error: concurrent map iteration and map write")
       ELSE /\ loc' = [loc EXCEPT ![t].buf = Encode(data)]
            /\ Goto(t, "persist_Write")
            /\ UNCHANGED <<impl, store, data, file, svars, ret, calls, writing, crashed>>

\* Encode, second half: the buffer goes to the file with one Write.  When the
\* Write fails part of the text may be in the file, and persist closes the
\* file and returns.
persist_Write(t) ==
    /\ At(t, "persist_Write")
    /\ \/ /\ file' = MkFile(WriteAt0(loc[t].buf, file.bytes))
          /\ Goto(t, "persist_Close")
          /\ UNCHANGED <<loc, ret, calls>>
       \/ \E p \in ProperPrefixes(loc[t].buf) :
             /\ file' = MkFile(WriteAt0(p, file.bytes))
             /\ Return(t, [Result(t) EXCEPT !.found = loc[t].ok, !.err = ErrEncode, !.opens = 1])
    /\ UNCHANGED <<impl, store, data, svars, writing, crashed>>

\* err = f.Close()
persist_Close(t) ==
    /\ At(t, "persist_Close")
    /\ \E e \in {NoErr, ErrClose} :
         Return(t, [Result(t) EXCEPT !.found = loc[t].ok, !.err = e, !.opens = 1])
    /\ UNCHANGED <<impl, store, data, file, svars, writing, crashed>>

Get_check(t) == CheckNil(t, "Get", "Get_lookup")

\* value, ok := m.data[key]; a nil map has no keys.
Get_lookup(t) ==
    /\ At(t, "Get_lookup")
    /\ IF ~data.nil /\ writing # 0
       THEN Fatal("fatal error: concurrent map read and map write")
       ELSE /\ Return(t, [Result(t) EXCEPT
                            !.found = (loc[t].key \in DOMAIN data.kv),
                            !.val = IF loc[t].key \in DOMAIN data.kv
                                    THEN data.kv[loc[t].key] ELSE ""])
            /\ UNCHANGED <<impl, store, data, file, svars, writing, crashed>>

Delete_check(t) == CheckNil(t, "Delete", "Delete_lookup")

\* _, ok := m.data[key]; the documented revision returns (false, nil) here
\* when the key is absent.
Delete_lookup(t) ==
    /\ At(t, "Delete_lookup")
    /\ IF ~data.nil /\ writing # 0
       THEN Fatal("fatal error: concurrent map read and map write")
       ELSE LET ok == loc[t].key \in DOMAIN data.kv
            IN  IF impl = "memory" /\ ~ok
                THEN /\ Return(t, Result(t))
                     /\ UNCHANGED <<impl, store, data, file, svars, writing, crashed>>
                ELSE /\ loc' = [loc EXCEPT ![t].ok = ok]
                     /\ Goto(t, "Delete_delete")
                     /\ UNCHANGED <<impl, store, data, file, svars, ret, calls, writing, crashed>>

\* delete(m.data, key)
Delete_delete(t) == BeginMapWrite(t, "Delete_delete", "Delete_deleted", FALSE)

Delete_deleted(t) ==
    EndMapWrite(t, "Delete_deleted", "persist", MapDelete(data.kv, loc[t].key))

Memories_check(t) == CheckNil(t, "Memories", "Memories_copy")

\* The loop that copies m.data into a new map.
Memories_copy(t) ==
    /\ At(t, "Memories_copy")
    /\ IF ~data.nil /\ writing # 0
       THEN Fatal("fatal error: concurrent map iteration and map write")
       ELSE /\ Return(t, [Result(t) EXCEPT !.mem = [k \in DOMAIN data.kv |-> data.kv[k]]])
            /\ UNCHANGED <<impl, store, data, file, svars, writing, crashed>>

Close_check(t) == CheckNil(t, "Close", "Close_assign")

\* m.data = nil
Close_assign(t) ==
    /\ At(t, "Close_assign")
    /\ data' = NilData
    /\ Return(t, Result(t))
    /\ UNCHANGED <<impl, store, file, svars, writing, crashed>>

\* The process stops where it is, killed or ended by the runtime, and a new
\* process calls NewMemory on the path.  pc and loc keep the places at which
\* the callers of the stopped process were.
Restart ==
    /\ last.op # "NewMemory"
    /\ crashed' = IF crashed = "" THEN "killed" ELSE crashed
    /\ \E opened \in BOOLEAN :
         LET r == IF ~opened THEN [err |-> ErrOpenRead, data |-> NilData]
                  ELSE IF ~file.exists THEN [err |-> NoErr, data |-> MkData(EmptyMap)]
                  ELSE Decode(file.bytes)
         IN  /\ store' = IF r.err = NoErr THEN "live" ELSE "none"
             /\ data' = IF r.err = NoErr THEN r.data ELSE NilData
             /\ last' = [NoCall EXCEPT !.op = "NewMemory", !.err = r.err]
    /\ prev' = [data |-> data, file |-> file, closed |-> FALSE]
    /\ UNCHANGED <<impl, file, expect, run, pc, loc, ret, calls, writing>>

NextConc ==
    \/ \E t \in Callers :
        \/ \E k \in AllKeys, v \in AllVals : Call(t, "Set", k, v)
        \/ \E k \in AllKeys : Call(t, "Get", k, "")
        \/ \E k \in AllKeys : Call(t, "Delete", k, "")
        \/ Call(t, "Memories", "", "")
        \/ Call(t, "Close", "", "")
        \/ Set_check(t)
        \/ Set_assign(t)
        \/ Set_assigned(t)
        \/ Get_check(t)
        \/ Get_lookup(t)
        \/ Delete_check(t)
        \/ Delete_lookup(t)
        \/ Delete_delete(t)
        \/ Delete_deleted(t)
        \/ Memories_check(t)
        \/ Memories_copy(t)
        \/ Close_check(t)
        \/ Close_assign(t)
        \/ persist_OpenFile(t)
        \/ persist_Encode(t)
        \/ persist_Write(t)
        \/ persist_Close(t)
    \/ Restart

SpecConc == InitConc /\ [][NextConc]_vars

\* ========================================================= properties
Methods == {"Set", "Get", "Delete", "Memories", "Keys", "Close"}

PersistErrors == {ErrOpenWrite, ErrEncode, ErrClose}

\* The store was open when the last call started.
WasOpen == store = "live" /\ ~prev.data.nil

\* A reader of the file f finds a JSON object with the pairs of m and no others.
FileHolds(f, m) ==
    /\ f.exists
    /\ LET r == Decode(f.bytes)
       IN  /\ r.err = NoErr
           /\ ~r.data.nil
           /\ DOMAIN r.data.kv = DOMAIN m
           /\ \A k \in DOMAIN m : r.data.kv[k] = m[k]

\* Every key but k is in b what it was in a.
SameButFor(a, b, k) ==
    \A j \in AllKeys \ {k} :
        /\ (j \in DOMAIN a) = (j \in DOMAIN b)
        /\ j \in DOMAIN a => a[j] = b[j]

Merge(a, b) == [k \in (DOMAIN a) \cup (DOMAIN b) |-> IF k \in DOMAIN b THEN b[k] ELSE a[k]]

\* C1 as claimed: after every Set or Delete that returns without error on an
\* open store, the file holds exactly the in-memory mapping.
C1_FileEqualsMemoryAfterAnySuccess ==
    (WasOpen /\ last.op \in {"Set", "Delete"} /\ last.err = NoErr)
        => FileHolds(file, data.kv)

\* C1 amended: after every Set, and every Delete of a key that was present,
\* that returns without error, the file holds exactly the in-memory mapping,
\* whatever the file held before (also what an earlier failed persist left).
C1_FileEqualsMemoryAfterPersist ==
    (WasOpen /\ (last.op = "Set" \/ (last.op = "Delete" /\ last.found)) /\ last.err = NoErr)
        => FileHolds(file, data.kv)

\* A Delete of a present key succeeded on a store whose file was stale, and
\* other keys remain.
C1_Witness ==
    /\ WasOpen
    /\ last.op = "Delete" /\ last.found /\ last.err = NoErr
    /\ prev.file.exists /\ ~FileHolds(prev.file, prev.data.kv)
    /\ DOMAIN data.kv # {}

\* C3: once Close has returned successfully, every later call of a method on
\* the instance fails with the closed-store error (Close: "already closed",
\* the others: "already shut down"), opens no file and leaves the file and the
\* released mapping as they were.
C3_ClosedStoreFails ==
    (store = "live" /\ last.op \in Methods /\ prev.closed)
        => /\ last.err = (IF last.op = "Close" THEN ErrClosed ELSE ErrShutDown)
           /\ ~last.found /\ last.val = "" /\ last.keys = <<>> /\ last.mem = EmptyMap
           /\ last.opens = 0
           /\ file = prev.file
           /\ data.nil

\* A Set was called after Close on a store whose file exists.
C3_Witness ==
    /\ store = "live" /\ prev.closed
    /\ last.op = "Set"
    /\ file.exists

\* C4 as claimed: after a run of successful Sets and a Close, a fresh store on
\* the path (that could open the file) holds exactly the pairs that were set.
C4_RestartHoldsOnlyWhatWasSet ==
    (last.op = "NewMemory" /\ run.pure /\ run.closed /\ run.sets # EmptyMap
     /\ last.err # ErrOpenRead)
        => /\ last.err = NoErr
           /\ store = "live"
           /\ data = MkData(run.sets)

\* C4 amended: the fresh store holds the pairs that were set (the last value
\* of each key) together with the pairs the first store loaded from the file
\* at its construction and that were not set again, and nothing else.
C4_RestartHoldsLoadedAndSet ==
    (last.op = "NewMemory" /\ run.pure /\ run.closed /\ last.err # ErrOpenRead)
        => /\ last.err = NoErr
           /\ store = "live"
           /\ data = MkData(Merge(run.loaded, run.sets))

\* A fresh store was built after a closed run that set every key, on top of
\* pairs loaded from the file.
C4_Witness ==
    /\ last.op = "NewMemory" /\ last.err = NoErr
    /\ run.pure /\ run.closed
    /\ DOMAIN run.sets = AllKeys
    /\ run.loaded # EmptyMap

\* C5: a Get(k) on an open store, after a successful Set(k, v) and no Set or
\* Delete of k since, returns (v, true, nil).
C5_SetThenGet ==
    (WasOpen /\ last.op = "Get" /\ expect[last.key].kind = "set")
        => /\ last.err = NoErr
           /\ last.found
           /\ last.val = expect[last.key].value

\* A Get of a key whose Set replaced another value.
C5_Witness ==
    /\ WasOpen
    /\ last.op = "Get"
    /\ expect[last.key].kind = "set"
    /\ expect[last.key].over

\* C6: Keys on an open store returns every key of the mapping, each once, in
\* lexicographic order.
C6_KeysSorted ==
    (WasOpen /\ last.op = "Keys")
        => /\ last.err = NoErr
           /\ {last.keys[i] : i \in 1..Len(last.keys)} = DOMAIN data.kv
           /\ Len(last.keys) = Cardinality(DOMAIN data.kv)
           /\ \A i, j \in 1..Len(last.keys) : i < j => Rank(last.keys[i]) < Rank(last.keys[j])

\* Keys returned at least two keys.
C6_Witness ==
    /\ WasOpen
    /\ last.op = "Keys"
    /\ Len(last.keys) >= 2

\* C7: Delete(k) of a present key on an open store reports existed = true,
\* runs persist once and returns its result (no error exactly when the file
\* was written in full), removes k and leaves every other key alone; a Get(k)
\* after a Delete(k) that succeeded reports found = false.
C7_DeletePresent ==
    /\ (WasOpen /\ last.op = "Delete" /\ last.key \in DOMAIN prev.data.kv)
          => /\ last.found
             /\ last.opens = 1
             /\ last.err \in {NoErr} \cup PersistErrors
             /\ last.err = NoErr => FileHolds(file, data.kv)
             /\ last.key \notin DOMAIN data.kv
             /\ SameButFor(prev.data.kv, data.kv, last.key)
    /\ (WasOpen /\ last.op = "Get" /\ expect[last.key].kind = "deleted")
          => /\ last.err = NoErr
             /\ ~last.found
             /\ last.val = ""

\* A Get of a deleted key while another key is still there.
C7_Witness ==
    /\ WasOpen
    /\ last.op = "Get"
    /\ expect[last.key].kind = "deleted"
    /\ DOMAIN data.kv # {}

\* C8 as claimed: Delete(k) of an absent key on an open store returns
\* (false, nil) and leaves the mapping as it was.
C8_DeleteAbsentNoError ==
    (WasOpen /\ last.op = "Delete" /\ last.key \notin DOMAIN prev.data.kv)
        => /\ ~last.found
           /\ last.err = NoErr
           /\ data = prev.data

\* C9 as claimed: Delete(k) of an absent key opens no file and leaves the
\* file's existence and content as they were.
C9_DeleteAbsentNoPersist ==
    (WasOpen /\ last.op = "Delete" /\ last.key \notin DOMAIN prev.data.kv)
        => /\ last.opens = 0
           /\ file = prev.file

\* C10: a Set(k, v) on an open store whose persist fails returns that error,
\* after one attempt, with k = v in the mapping, the other keys untouched and
\* the store still open; a Get(k) after it returns (v, true, nil) and opens
\* no file.
C10_FailedSetKeepsValue ==
    /\ (WasOpen /\ last.op = "Set" /\ last.err # NoErr)
          => /\ last.err \in PersistErrors
             /\ last.opens = 1
             /\ ~data.nil
             /\ last.key \in DOMAIN data.kv
             /\ data.kv[last.key] = last.value
             /\ SameButFor(prev.data.kv, data.kv, last.key)
    /\ (WasOpen /\ last.op = "Get" /\ expect[last.key].kind = "setfailed")
          => /\ last.err = NoErr
             /\ last.found
             /\ last.val = expect[last.key].value
             /\ last.opens = 0
             /\ file = prev.file

\* A Get of a key whose Set failed, with the file not holding the mapping.
C10_Witness ==
    /\ WasOpen
    /\ last.op = "Get"
    /\ expect[last.key].kind = "setfailed"
    /\ ~FileHolds(file, data.kv)

\* C2 as claimed: when every caller has issued one Set, on keys that differ,
\* against the open store, no file operation failed and all the calls have
\* returned, every call returned nil, the mapping holds every written pair and
\* a reader of the file finds a JSON object with every written pair.
C2_ConcurrentSetsAllLand ==
    (/\ crashed = ""
     /\ \A t \in Callers :
          /\ pc[t] = "idle" /\ calls[t] = 1
          /\ ret[t].op = "Set"
          /\ ret[t].err \notin PersistErrors
     /\ \A t, u \in Callers : t # u => ret[t].key # ret[u].key)
        => /\ \A t \in Callers : ret[t].err = NoErr
           /\ ~data.nil
           /\ file.exists
           /\ LET r == Decode(file.bytes)
              IN  /\ r.err = NoErr
                  /\ ~r.data.nil
                  /\ \A t \in Callers :
                       /\ ret[t].key \in DOMAIN data.kv
                       /\ data.kv[ret[t].key] = ret[t].value
                       /\ ret[t].key \in DOMAIN r.data.kv
                       /\ r.data.kv[ret[t].key] = ret[t].value

\* The whole text b is one JSON object of string keys to string values, with
\* or without the newline that ends it.
IsObjectText(b) ==
    \E m \in Maps :
        \/ b = Encode(MkData(m))
        \/ b = SubSeq(Encode(MkData(m)), 1, Len(Encode(MkData(m))) - 1)

\* C11 as claimed: NewMemory fails and returns no store when the file exists
\* and cannot be opened, or holds anything but one JSON object of strings (an
\* empty file, a cut-off text, null); so a store that NewMemory returns is
\* open, and its first call does not meet the closed-store check.
C11_ConstructionRejectsNonObject ==
    last.op = "NewMemory"
        => /\ (prev.file.exists /\ ~IsObjectText(prev.file.bytes))
                 => (last.err \in {ErrOpenRead, ErrDecode} /\ store = "none")
           /\ last.err # NoErr => store = "none"
           /\ store = "live" => ~data.nil

\* C12: NewMemory on a path where os.Open reports that no file exists returns
\* an open store with an empty mapping and leaves the path without a file; a
\* Get on that store, before any mutation, returns ("", false, nil); the file
\* comes into being only by a Set or a Delete that ran persist, and a Set that
\* succeeds leaves a file.
C12_NoFileGivesEmptyStore ==
    /\ (last.op = "NewMemory" /\ ~prev.file.exists /\ last.err # ErrOpenRead)
          => /\ last.err = NoErr
             /\ store = "live"
             /\ data = MkData(EmptyMap)
             /\ ~file.exists
    /\ (store = "live" /\ last.op = "Get" /\ ~file.exists
        /\ run.pure /\ run.sets = EmptyMap /\ ~run.closed)
          => /\ last.err = NoErr
             /\ ~last.found
             /\ last.val = ""
    /\ (last.op # "none" /\ ~prev.file.exists /\ file.exists)
          => /\ last.op \in {"Set", "Delete"}
             /\ last.opens = 1
             /\ ~prev.data.nil
    /\ (WasOpen /\ last.op = "Set" /\ last.err = NoErr) => file.exists

\* The first Set on a store built where no file was has created the file.
C12_Witness ==
    /\ WasOpen
    /\ last.op = "Set" /\ last.err = NoErr
    /\ ~prev.file.exists /\ file.exists
    /\ prev.data.kv = EmptyMap
    /\ run.pure /\ run.loaded = EmptyMap

\* C13: Close on an open store returns nil and releases the mapping; Close on
\* a closed store returns "brain was already closed"; and after any method
\* call that began on a closed store, the store is closed still.
C13_ClosedIsAbsorbing ==
    /\ (WasOpen /\ last.op = "Close") => (last.err = NoErr /\ data.nil)
    /\ (store = "live" /\ prev.data.nil /\ last.op = "Close") => last.err = ErrClosed
    /\ (store = "live" /\ prev.data.nil /\ last.op \in Methods) => data.nil
    /\ (store = "live" /\ prev.closed /\ last.op \in Methods) => (prev.data.nil /\ run.closed)

\* A second Close was called on a store that a Close had released.
C13_Witness ==
    /\ store = "live" /\ prev.closed
    /\ last.op = "Close"
    /\ last.err = ErrClosed

\* C16: a Get, of a present key, of an absent key or on a closed store, leaves
\* the mapping, the open or closed state and the file as they were and opens
\* no file; on an open store it returns no error.
C16_GetChangesNothing ==
    (store = "live" /\ last.op = "Get")
        => /\ data = prev.data
           /\ file = prev.file
           /\ last.opens = 0
           /\ run.closed = prev.closed
           /\ ~prev.data.nil => last.err = NoErr
           /\ prev.data.nil => last.err = ErrShutDown

\* A Get found its key while the file did not hold the mapping.
C16_Witness ==
    /\ WasOpen
    /\ last.op = "Get" /\ last.found
    /\ ~FileHolds(file, data.kv)

\* C17: Close opens no file, and the file after it, whether there is one and
\* what it holds, is the file before it.
C17_CloseLeavesFile ==
    (store = "live" /\ last.op = "Close")
        => /\ file = prev.file
           /\ last.opens = 0

\* A Close released a mapping with pairs that the file holds, and the file
\* holds them still.
C17_Witness ==
    /\ WasOpen
    /\ last.op = "Close" /\ last.err = NoErr
    /\ prev.data.kv # EmptyMap
    /\ FileHolds(file, prev.data.kv)

\* C20: when the file does not hold the mapping (a persist failed), a Set, or
\* a Delete of a present key, whose persist succeeds leaves the file holding
\* exactly the mapping, and with it every value whose Set failed in persist
\* and that was not set or deleted since.
C20_NextPersistHeals ==
    (WasOpen /\ (last.op = "Set" \/ (last.op = "Delete" /\ last.found)) /\ last.err = NoErr
     /\ ~FileHolds(prev.file, prev.data.kv))
        => /\ FileHolds(file, data.kv)
           /\ \A k \in AllKeys :
                expect[k].kind = "setfailed"
                    => /\ k \in DOMAIN Decode(file.bytes).data.kv
                       /\ Decode(file.bytes).data.kv[k] = expect[k].value

\* A Set succeeded while the value of another key, whose Set had failed, was
\* not in the file.
C20_Witness ==
    /\ WasOpen
    /\ last.op = "Set" /\ last.err = NoErr
    /\ \E k \in AllKeys \ {last.key} :
         /\ expect[k].kind = "setfailed"
         /\ ~(/\ prev.file.exists
              /\ Decode(prev.file.bytes).err = NoErr
              /\ k \in DOMAIN Decode(prev.file.bytes).data.kv
              /\ Decode(prev.file.bytes).data.kv[k] = expect[k].value)

\* C15: Memories on an open store returns the pairs of the mapping and leaves
\* mapping and file alone; when the caller then assigns to or deletes from the
\* map it was given, the store's mapping and the file stay as they were, and
\* the Get or Memories that follows answers from the unchanged mapping.
C15_MemoriesIsACopy ==
    /\ (WasOpen /\ last.op = "Memories")
          => /\ last.err = NoErr
             /\ last.mem = prev.data.kv
             /\ data = prev.data
             /\ file = prev.file
    /\ last.op \in {"CallerAssigns", "CallerDeletes"}
          => /\ data = prev.data
             /\ file = prev.file
             /\ ~data.nil
    /\ (WasOpen /\ last.op = "Get")
          => /\ last.found = (last.key \in DOMAIN prev.data.kv)
             /\ last.found => last.val = prev.data.kv[last.key]

\* The caller has changed the map it was given, which now differs from the
\* store's mapping, and the file holds the store's mapping.
C15_Witness ==
    /\ last.op \in {"CallerAssigns", "CallerDeletes"}
    /\ last.mem # data.kv
    /\ data.kv # EmptyMap
    /\ FileHolds(file, data.kv)

\* No caller has got as far as persist's OpenFile.
NoPersistAttempted ==
    \A u \in Callers :
        /\ ret[u].opens = 0
        /\ pc[u] \notin {"persist_Encode", "persist_Write", "persist_Close"}

\* The mapping the untouched file stands for.
FileMapping == IF file.exists THEN Decode(file.bytes).data.kv ELSE EmptyMap

\* C14 as claimed: no Get or Memories returns a state of the mapping made by a
\* Set or Delete whose persist has not been attempted: while no caller has
\* entered persist's OpenFile (and no caller calls Close), what the readers
\* have returned is the mapping the store was built with.
C14_ReadersSeeOnlyPersisted ==
    (/\ crashed = ""
     /\ NoPersistAttempted
     /\ \A u \in Callers : loc[u].op # "Close" /\ ret[u].op # "Close")
        => \A t \in Callers :
             /\ ret[t].op = "Get"
                   => /\ ret[t].found = (ret[t].key \in DOMAIN FileMapping)
                      /\ ret[t].found => ret[t].val = FileMapping[ret[t].key]
             /\ ret[t].op = "Memories" => ret[t].mem = FileMapping

\* C19 as claimed: whatever the interleaving of a Close with Sets and Deletes
\* of other callers, no call assigns into the released mapping, no persist
\* encodes the released mapping, and the file never holds null.
C19_CloseExcludesMutations ==
    /\ crashed # "panic: assignment to entry in nil map"
    /\ \A t \in Callers : pc[t] = "persist_Write" => loc[t].buf # Encode(NilData)
    /\ (file.exists /\ file.bytes # <<>>) => file.bytes[1] # "null"

\* Caller t alone has opened the file since the store was built.
OnlyWriter(t) ==
    \A u \in Callers \ {t} :
        /\ calls[u] = 0
        /\ pc[u] \notin {"persist_Encode", "persist_Write", "persist_Close"}

\* C18: between the OpenFile of a persist and its Write the file is there and
\* empty, whatever it held (no other caller having opened it); when the
\* process stops at that point, NewMemory on the path fails, with the decode
\* error once it has opened the file, and returns no store: neither the old
\* mapping nor the new one is loaded.
C18_StopInPersistLosesSnapshot ==
    \A t \in Callers :
        (pc[t] \in {"persist_Encode", "persist_Write"} /\ OnlyWriter(t))
            => /\ file = MkFile(<<>>)
               /\ last.op = "NewMemory"
                     => /\ last.err \in {ErrDecode, ErrOpenRead}
                        /\ store = "none"
                        /\ data.nil

\* The process was killed while the Delete of a key that the file held had
\* opened the file and not yet written, and NewMemory then failed to decode;
\* the mapping the killed process was about to write had pairs left.
C18_Witness ==
    /\ crashed = "killed"
    /\ last.op = "NewMemory" /\ last.err = ErrDecode
    /\ \E t \in Callers :
         /\ pc[t] = "persist_Write"
         /\ loc[t].op = "Delete" /\ loc[t].ok
         /\ \A u \in Callers \ {t} : calls[u] = 0 /\ pc[u] = "idle"
    /\ prev.data.kv # EmptyMap
    /\ file = MkFile(<<>>)

=============================================================================
